---------------------------- MODULE Spec2Model ----------------------------
(***************************************************************************)
(* The heating-value notebook (Chapter_2/2_5_Heating_value.ipynb): the     *)
(* function heating_values(fuel) and the two mixture objects it works on,  *)
(* the ideal-gas mixture "gas" and the liquid/vapor mixture "water".       *)
(*                                                                         *)
(* Arithmetic.  Every quantity the notebook computes is a Python float.    *)
(* A float is modelled as a binary floating-point number <<m, e>> of value *)
(* m * 2^e with a mantissa of Precision bits, every operation rounding its *)
(* exact result to the nearest such number (ties to even), as IEEE 754     *)
(* does with 53 bits.  Exponents are unbounded: no quantity of the         *)
(* notebook comes near the overflow or underflow threshold of a double.    *)
(*                                                                         *)
(* Library.  gas and water are objects of the Cantera library; what the    *)
(* notebook relies on is modelled here: a state (T, P, mole fractions) set *)
(* through TP, TPX and set_equivalence_ratio, and the properties Y,        *)
(* enthalpy_mass, n_atoms and molecular_weights read from it.              *)
(***************************************************************************)
EXTENDS Integers, Sequences, FiniteSets, TLC

-----------------------------------------------------------------------------
(* Bounds of the model.                                                    *)

\* bits of mantissa of the modelled floats
Precision == 12
\* calls of heating_values in one session
MaxCalls == 2
\* passes over the cells of the notebook in one session
MaxPasses == 2

-----------------------------------------------------------------------------
(* Floating-point arithmetic.                                              *)

Pow2(n) == 2 ^ n

Abs(n) == IF n < 0 THEN -n ELSE n

Sign(n) == IF n < 0 THEN -1 ELSE IF n > 0 THEN 1 ELSE 0

Zero == <<0, 0>>

\* mantissas m of the floats other than zero: MantissaMin <= |m| < MantissaLimit
MantissaLimit == Pow2(Precision)

MantissaMin == Pow2(Precision - 1)

\* the number of binary digits of x, for 0 < x < 2^31
BitLength(x) == CHOOSE b \in 1 .. 31 : x \div 2 ^ (b - 1) = 1

\* the exponent k for which n/d / 2^k has Precision binary digits before
\* the point, for n > 0 and d > 0
Scale(n, d) ==
    IF n >= d THEN BitLength(n \div d) - Precision
    ELSE LET c == BitLength(d \div n)
         IN  IF d = n * 2 ^ (c - 1) THEN 2 - c - Precision
             ELSE 1 - c - Precision

\* the mantissa m at exponent e, renormalized when rounding carried it up
\* to MantissaLimit
Carry(m, e) == IF m = MantissaLimit THEN <<MantissaMin, e + 1>> ELSE <<m, e>>

\* the quotient q with remainder r of a division by d, rounded to the
\* nearest integer, ties to even
Nearest(q, r, d) ==
    IF (2 * r > d) \/ (2 * r = d /\ q % 2 = 1) THEN q + 1 ELSE q

\* the float nearest to n/d * 2^e, for MantissaMin <= n/d < MantissaLimit
RoundScaled(n, d, e) == Carry(Nearest(n \div d, n % d, d), e)

\* the float nearest to n/d * 2^e, where n/d / 2^k is in that range
RoundShift(n, d, e, k) ==
    RoundScaled(IF k < 0 THEN n * 2 ^ (-k) ELSE n,
                IF k > 0 THEN d * 2 ^ k ELSE d, e + k)

\* the float nearest to n/d * 2^e, for n > 0 and d > 0 (ties to even)
RoundPos(n, d, e) == RoundShift(n, d, e, Scale(n, d))

\* the float nearest to n/d * 2^e, for d > 0
Round(n, d, e) ==
    IF n = 0 THEN Zero
    ELSE LET r == RoundPos(Abs(n), d, e)
         IN  <<Sign(n) * r[1], r[2]>>

\* an integer or decimal literal of the source, n/d
Lit(n, d) == Round(n, d, 0)

FNeg(u) == <<-u[1], u[2]>>

FMul(u, v) ==
    IF u[1] = 0 THEN Zero ELSE Round(u[1] * v[1], 1, u[2] + v[2])

\* Python raises ZeroDivisionError for v = 0: the callers guard it
FDiv(u, v) == Round(Sign(v[1]) * u[1], Abs(v[1]), u[2] - v[2])

FAdd(u, v) ==
    IF u[1] = 0 THEN v
    ELSE IF v[1] = 0 THEN u
    ELSE IF u[2] - v[2] > Precision + 1 THEN u
    ELSE IF v[2] - u[2] > Precision + 1 THEN v
    ELSE IF u[2] >= v[2] THEN Round(u[1] * Pow2(u[2] - v[2]) + v[1], 1, v[2])
    ELSE Round(u[1] + v[1] * Pow2(v[2] - u[2]), 1, u[2])

FSub(u, v) == FAdd(u, FNeg(v))

\* u < v, u <= v on floats (exact)
FLess(u, v) ==
    IF u[1] <= 0 /\ v[1] > 0 THEN u # v
    ELSE IF u[1] < 0 /\ v[1] = 0 THEN TRUE
    ELSE IF u[1] >= 0 /\ v[1] <= 0 THEN FALSE
    ELSE IF u[1] > 0 THEN (u[2] < v[2]) \/ (u[2] = v[2] /\ u[1] < v[1])
    ELSE (u[2] > v[2]) \/ (u[2] = v[2] /\ u[1] < v[1])

FLeq(u, v) == u = v \/ FLess(u, v)

FMax(u, v) == IF FLess(u, v) THEN v ELSE u

-----------------------------------------------------------------------------
(* The thermodynamic data the two mixture objects are loaded with.         *)

\* the species of gri30 made of C, H and O, in the mechanism's order, and N2
\* (the other species of the mechanism, made of N or Ar, never get a mole
\* fraction other than zero here)
SpeciesSeq ==
    << "H2", "H", "O", "O2", "OH", "H2O", "HO2", "H2O2", "C", "CH",
       "CH2", "CH2(S)", "CH3", "CH4", "CO", "CO2", "HCO", "CH2O", "CH2OH",
       "CH3O", "CH3OH", "C2H", "C2H2", "C2H3", "C2H4", "C2H5", "C2H6",
       "HCCO", "CH2CO", "HCCOH", "N2", "C3H7", "C3H8", "CH2CHO", "CH3CHO" >>

GasSpecies == {SpeciesSeq[i] : i \in DOMAIN SpeciesSeq}

\* atoms of C, H, O, N in a molecule of the species
Atoms(k) ==
    CASE k = "H2" -> <<0, 2, 0, 0>>     [] k = "H" -> <<0, 1, 0, 0>>
      [] k = "O" -> <<0, 0, 1, 0>>      [] k = "O2" -> <<0, 0, 2, 0>>
      [] k = "OH" -> <<0, 1, 1, 0>>     [] k = "H2O" -> <<0, 2, 1, 0>>
      [] k = "HO2" -> <<0, 1, 2, 0>>    [] k = "H2O2" -> <<0, 2, 2, 0>>
      [] k = "C" -> <<1, 0, 0, 0>>      [] k = "CH" -> <<1, 1, 0, 0>>
      [] k = "CH2" -> <<1, 2, 0, 0>>    [] k = "CH2(S)" -> <<1, 2, 0, 0>>
      [] k = "CH3" -> <<1, 3, 0, 0>>    [] k = "CH4" -> <<1, 4, 0, 0>>
      [] k = "CO" -> <<1, 0, 1, 0>>     [] k = "CO2" -> <<1, 0, 2, 0>>
      [] k = "HCO" -> <<1, 1, 1, 0>>    [] k = "CH2O" -> <<1, 2, 1, 0>>
      [] k = "CH2OH" -> <<1, 3, 1, 0>>  [] k = "CH3O" -> <<1, 3, 1, 0>>
      [] k = "CH3OH" -> <<1, 4, 1, 0>>  [] k = "C2H" -> <<2, 1, 0, 0>>
      [] k = "C2H2" -> <<2, 2, 0, 0>>   [] k = "C2H3" -> <<2, 3, 0, 0>>
      [] k = "C2H4" -> <<2, 4, 0, 0>>   [] k = "C2H5" -> <<2, 5, 0, 0>>
      [] k = "C2H6" -> <<2, 6, 0, 0>>   [] k = "HCCO" -> <<2, 1, 1, 0>>
      [] k = "CH2CO" -> <<2, 2, 1, 0>>  [] k = "HCCOH" -> <<2, 2, 1, 0>>
      [] k = "N2" -> <<0, 0, 0, 2>>     [] k = "C3H7" -> <<3, 7, 0, 0>>
      [] k = "C3H8" -> <<3, 8, 0, 0>>   [] k = "CH2CHO" -> <<2, 3, 1, 0>>
      [] k = "CH3CHO" -> <<2, 4, 1, 0>>

ElementIndex(el) ==
    CASE el = "C" -> 1 [] el = "H" -> 2 [] el = "O" -> 3 [] el = "N" -> 4

\* atomic weights (kg/kmol)
AtomicWeight(el) ==
    CASE el = "C" -> Lit(12011, 1000)
      [] el = "H" -> Lit(100794, 100000)
      [] el = "O" -> Lit(159994, 10000)
      [] el = "N" -> Lit(1400674, 100000)

\* molar enthalpy of the species at the reference temperature (J/kmol)
EnthalpyRef(k) ==
    CASE k = "H2" -> 0              [] k = "H" -> 217998000
      [] k = "O" -> 249175000       [] k = "O2" -> 0
      [] k = "OH" -> 39347000       [] k = "H2O" -> -241825000
      [] k = "HO2" -> 12552000      [] k = "H2O2" -> -136106000
      [] k = "C" -> 716670000       [] k = "CH" -> 594130000
      [] k = "CH2" -> 386990000     [] k = "CH2(S)" -> 424720000
      [] k = "CH3" -> 145690000     [] k = "CH4" -> -74600000
      [] k = "CO" -> -110530000     [] k = "CO2" -> -393510000
      [] k = "HCO" -> 41800000      [] k = "CH2O" -> -115900000
      [] k = "CH2OH" -> -17900000   [] k = "CH3O" -> 16300000
      [] k = "CH3OH" -> -200940000  [] k = "C2H" -> 566200000
      [] k = "C2H2" -> 228190000    [] k = "C2H3" -> 299740000
      [] k = "C2H4" -> 52500000     [] k = "C2H5" -> 118660000
      [] k = "C2H6" -> -83860000    [] k = "HCCO" -> 177600000
      [] k = "CH2CO" -> -51870000   [] k = "HCCOH" -> 85480000
      [] k = "N2" -> 0              [] k = "C3H7" -> 100500000
      [] k = "C3H8" -> -103860000   [] k = "CH2CHO" -> 25100000
      [] k = "CH3CHO" -> -165320000

\* molar heat capacity of a species (J/kmol/K), by its number of atoms
HeatCapacity(k) ==
    LET n == Atoms(k)[1] + Atoms(k)[2] + Atoms(k)[3] + Atoms(k)[4]
    IN  IF n = 1 THEN 20800 ELSE IF n = 2 THEN 29100 ELSE 12500 * n

\* temperatures are held in hundredths of a kelvin, pressures in pascal
T_ref == 29815
P_ref == 101325
T_initial == 30000

\* molar enthalpy of species k at temperature T (J/kmol)
SpeciesEnthalpy(k, T) ==
    Lit(EnthalpyRef(k) + (HeatCapacity(k) * (T - T_ref)) \div 100, 1)

\* enthalpy of saturated liquid water (Q = 0) and of saturated water vapor
\* (Q = 1) at temperature T (J/kg)
WaterEnthalpy(T, Q) ==
    LET liq == -15858194 + (4180 * (T - T_ref)) \div 100
        vap == -13415882 + (1860 * (T - T_ref)) \div 100
    IN  IF Q = 0 THEN Lit(liq, 1) ELSE Lit(vap, 1)

-----------------------------------------------------------------------------
(* The ideal-gas mixture object: what the library does with it.            *)

\* a composition: a number of every species
Composition(c) == [k \in GasSpecies |-> IF k \in DOMAIN c THEN c[k] ELSE Zero]

\* acc + f[seq[i]] + ... + f[seq[Len(seq)]], added one after the other
RECURSIVE SumFrom(_, _, _, _)
SumFrom(f, seq, i, acc) ==
    IF i > Len(seq) THEN acc
    ELSE LET s == FAdd(acc, f[seq[i]])
         IN  IF s[1] = 0 THEN SumFrom(f, seq, i + 1, Zero)
             ELSE SumFrom(f, seq, i + 1, s)

\* the sum of f over the species, added in the mechanism's order; adding a
\* zero leaves a float sum as it is, so only the terms other than zero are
\* added
SumOver(f) ==
    SumFrom(f, SelectSeq(SpeciesSeq, LAMBDA k : f[k] # Zero), 1, Zero)

\* gas.molecular_weights[gas.species_index(k)]
molecular_weight(k) ==
    FAdd(FAdd(FAdd(FMul(Lit(Atoms(k)[3], 1), AtomicWeight("O")),
                   FMul(Lit(Atoms(k)[2], 1), AtomicWeight("H"))),
              FMul(Lit(Atoms(k)[1], 1), AtomicWeight("C"))),
         FMul(Lit(Atoms(k)[4], 1), AtomicWeight("N")))

\* gas.n_atoms(k, el), a float
n_atoms(k, el) == Lit(Atoms(k)[ElementIndex(el)], 1)

\* the mole fractions the mixture takes when its composition is set to the
\* relative mole numbers c: negative numbers count as zero, the rest is
\* divided by its sum
Normalized(c) ==
    LET pos == [k \in GasSpecies |-> FMax(c[k], Zero)]
        norm == SumOver(pos)
    IN  [k \in GasSpecies |-> FDiv(pos[k], norm)]

\* some mole number of c is positive: the composition can be normalized
Normalizable(c) == \E k \in GasSpecies : FLess(Zero, c[k])

mean_molecular_weight(g) ==
    SumOver([k \in GasSpecies |-> FMul(g.X[k], molecular_weight(k))])

\* gas.Y[gas.species_index(k)]
mass_fraction(g, k) ==
    FDiv(FMul(g.X[k], molecular_weight(k)), mean_molecular_weight(g))

enthalpy_mole(g) ==
    SumOver([k \in GasSpecies |-> FMul(g.X[k], SpeciesEnthalpy(k, g.T))])

\* gas.enthalpy_mass
enthalpy_mass(g) == FDiv(enthalpy_mole(g), mean_molecular_weight(g))

\* gas.TP = T, P
SetTP(g, T, P) == [g EXCEPT !.T = T, !.P = P]

\* a composition setter that falls back to the initial temperature
SetX_initialT(g, c) == [g EXCEPT !.X = Normalized(c), !.T = T_initial]

\* a composition setter that overwrites the species named and keeps the
\* fractions the other species had
SetX_merge(g, c) ==
    [g EXCEPT !.X = Normalized([k \in GasSpecies |->
                                   IF c[k] # Zero THEN c[k] ELSE g.X[k]])]

\* gas.TPX = None, None, c: the temperature and the pressure stay
SetX(g, c) == [g EXCEPT !.X = Normalized(c)]

\* the oxidizer 'O2:1.0 N2:<n2>' as a composition
Oxidizer(n2) == Composition([k \in {"O2", "N2"} |->
                                IF k = "O2" THEN Lit(1, 1) ELSE n2])

\* the element sums of a composition, as set_equivalence_ratio takes them
ElementSum(X, el) ==
    SumOver([k \in GasSpecies |-> FMul(X[k], n_atoms(k, el))])

\* moles of oxidizer mixture per mole of fuel mixture for complete
\* combustion to CO2 and H2O
StoichAirFuelRatio(Xf, Xo) ==
    FNeg(FDiv(FSub(FSub(ElementSum(Xf, "O"), FMul(Lit(2, 1), ElementSum(Xf, "C"))),
                   FDiv(ElementSum(Xf, "H"), Lit(2, 1))),
              FSub(FSub(ElementSum(Xo, "O"), FMul(Lit(2, 1), ElementSum(Xo, "C"))),
                   FDiv(ElementSum(Xo, "H"), Lit(2, 1)))))

\* the relative mole numbers gas.set_equivalence_ratio(phi, fuel, oxidizer)
\* sets: phi * Xf + stoichAirFuelRatio * Xo
EquivalenceRatioMoles(phi, fuel, oxidizer) ==
    LET Xf == Normalized(Composition([k \in {fuel} |-> Lit(1, 1)]))
        Xo == Normalized(oxidizer)
        r == StoichAirFuelRatio(Xf, Xo)
    IN  [k \in GasSpecies |-> FAdd(FMul(phi, Xf[k]), FMul(r, Xo[k]))]

\* gas.set_equivalence_ratio(phi, fuel, oxidizer), fuel a species of gas
set_equivalence_ratio(g, phi, fuel, oxidizer) ==
    SetX(g, EquivalenceRatioMoles(phi, fuel, oxidizer))

\* ct.Solution('gri30.cti'): the mechanism's initial state
NewSolution ==
    [T |-> T_initial, P |-> P_ref,
     X |-> Normalized(Composition([k \in {"H2"} |-> Lit(1, 1)]))]

-----------------------------------------------------------------------------
(* The liquid/vapor mixture object.                                        *)

\* ct.Water(): liquid water at the initial temperature
NewWater == [T |-> T_initial, Q |-> 0]

\* a water.TX that sets the vapor fraction and leaves the temperature
SetTX_keepT(w, T, Q) == [w EXCEPT !.Q = Q]

\* water.TX = T, Q
SetTX(w, T, Q) == [w EXCEPT !.T = T, !.Q = Q]

\* water.h
water_h(w) == WaterEnthalpy(w.T, w.Q)

-----------------------------------------------------------------------------
(* heating_values(fuel), statement by statement.                           *)

VARIABLES
    gas,            \* the object bound to the notebook's name gas
    water,          \* the object bound to the notebook's name water
    pc,             \* the statement of heating_values to execute next
    calls,          \* calls of heating_values made so far
    fuel,           \* the argument of the call
    loc,            \* the locals of the call, by name
    ret,            \* the tuple the last call returned
    exc,            \* the exception the last call raised
    log,            \* the accesses of this call to gas and water, in order
    cell,           \* the cell or statement of the notebook to execute next
    gas1,           \* the object bound to the notebook's name gas1
    glob,           \* the notebook's names of the step-by-step cells, by name
    fuels,          \* the list bound to the notebook's name fuels
    index,          \* the notebook's name i, the index of the loop
    hvs,            \* the array bound to the notebook's name hvs, by rows
    out,            \* the lines the last cell printed, in order
    pass            \* the passes over the cells of the notebook begun so far

\* the names of the notebook that no statement of heating_values assigns
notebook == <<cell, gas1, glob, fuels, index, hvs, out, pass>>

vars == <<gas, water, pc, calls, fuel, loc, ret, exc, log, notebook>>

\* a name with no value yet
Unbound == <<>>

\* the argument before any call is made
NoArgument == ""

\* the N2 of 'O2:1.0 N2:3.76' and of N_N2 = 3.76*a
AirN2 == Lit(376, 100)

\* the fuels a call is made with: the species of gas that hold C or H and
\* no N, and one name that is no species of gas (O and O2, which hold
\* neither C nor H, are no fuels: with them no mole number of the product
\* mixture is positive)
UnknownFuel == "C4H10"

FuelSpecies ==
    {k \in GasSpecies : Atoms(k)[1] + Atoms(k)[2] > 0 /\ Atoms(k)[4] = 0}

FuelInputs == FuelSpecies \cup {UnknownFuel}

\* a = x + y/4. - z/2.
OxygenMoles(xx, yy, zz) ==
    FSub(FAdd(xx, FDiv(yy, Lit(4, 1))), FDiv(zz, Lit(2, 1)))

\* N_CO2 = x
MolesCO2(xx) == xx

\* a product water count of y/4: hydrogen atoms would be lost
MolesH2O_quarter(yy) == FDiv(yy, Lit(4, 1))

\* N_H2O = y/2.
MolesH2O(yy) == FDiv(yy, Lit(2, 1))

\* a product nitrogen count that keeps the 3.76 of air whatever the oxidizer
MolesN2_air(n2, aa) == FMul(Lit(376, 100), aa)

\* N_N2 = 3.76*a
MolesN2(n2, aa) == FMul(n2, aa)

\* X_prod = {'CO2':N_CO2,'H2O':N_H2O,'N2':N_N2}
ProductMoles(nco2, nh2o, nn2) ==
    Composition([k \in {"CO2", "H2O", "N2"} |->
                    IF k = "CO2" THEN nco2 ELSE IF k = "H2O" THEN nh2o ELSE nn2])

\* a lower heating value per mass of mixture: no division by Y_fuel_reac
LowerHeatingValue_mixture(hr, hp, yf) == FSub(hr, hp)

\* lhv_mass = ( h_reac_mass - h_prod_mass ) / Y_fuel_reac
LowerHeatingValue(hr, hp, yf) == FDiv(FSub(hr, hp), yf)

\* a water mass without the division by the fuel's molecular weight
WaterMass_undivided(nh2o, f) == FMul(nh2o, molecular_weight("H2O"))

\* m_h2o = N_H2O*MW[H2O] / MW[fuel]
WaterMass(nh2o, f) ==
    FDiv(FMul(nh2o, molecular_weight("H2O")), molecular_weight(f))

\* a higher heating value with the latent heat taken off
HigherHeatingValue_minus(lhv, mw, hfg) == FSub(lhv, FMul(mw, hfg))

\* hhv_mass = lhv_mass + m_h2o*h_fg
HigherHeatingValue(lhv, mw, hfg) == FAdd(lhv, FMul(mw, hfg))

\* a per-mole value taken with the molecular weight of water
PerMole_water(hv, f) == FMul(hv, molecular_weight("H2O"))

\* lhv_mole = lhv_mass*MW[fuel], hhv_mole = hhv_mass*MW[fuel]
PerMole(hv, f) == FMul(hv, molecular_weight(f))

\* heating_values(f) as one function of the two objects it is called on,
\* with the oxidizer 'O2:1.0 N2:<n2>' and N_N2 = <n2>*a
HeatingValuesWith(g, w, f, n2) ==
    LET reac == set_equivalence_ratio(SetTP(g, T_ref, P_ref), Lit(1, 1), f,
                                      Oxidizer(n2))
        yf == mass_fraction(reac, f)
        hr == enthalpy_mass(reac)
        xx == n_atoms(f, "C")
        yy == n_atoms(f, "H")
        zz == n_atoms(f, "O")
        aa == OxygenMoles(xx, yy, zz)
        prod == SetX(reac, ProductMoles(MolesCO2(xx), MolesH2O(yy),
                                        MolesN2(n2, aa)))
        hp == enthalpy_mass(prod)
        lhv == LowerHeatingValue(hr, hp, yf)
        hl == water_h(SetTX(w, T_ref, 0))
        hg == water_h(SetTX(w, T_ref, 1))
        hhv == HigherHeatingValue(lhv, WaterMass(MolesH2O(yy), f), FSub(hg, hl))
    IN  <<lhv, PerMole(lhv, f), hhv, PerMole(hhv, f)>>

LocalNames ==
    {"Y_fuel_reac", "h_reac_mass", "x", "y", "z", "a", "N_CO2", "N_H2O",
     "N_N2", "X_prod", "h_prod_mass", "lhv_mass", "lhv_mole", "h_liq",
     "h_gas", "h_fg", "m_h2o", "hhv_mass", "hhv_mole"}

\* a frame in which no local is assigned yet
NewFrame == [n \in LocalNames |-> Unbound]

-----------------------------------------------------------------------------
(* The cells of the notebook above heating_values: propane, step by step.  *)

\* ct.one_atm, in pascal
one_atm == 101325

\* the names the step-by-step cells assign
GlobalNames ==
    {"fuel", "air", "phi", "h_reac_mass", "Y_C3H8_reac", "x", "y", "z", "a",
     "N_CO2", "N_H2O", "N_N2", "X_prod", "h_prod_mass", "lhv_mass",
     "lhv_mole", "h_liq", "h_gas", "h_fg", "hbar_fg", "m_h2o", "hhv_mass",
     "hhv_mole"}

\* the notebook before its first cell is run
NoGlobals == [n \in GlobalNames |-> IF n = "fuel" THEN NoArgument ELSE Unbound]

\* a value in J divided by 1000.: the value in kJ
Kilo(u) == FDiv(u, Lit(1000, 1))

\* a latent heat left in J/kg
LatentHeatKilo_joule(hg, hl) == FSub(hg, hl)

\* h_fg = ( h_gas - h_liq ) / 1000.
LatentHeatKilo(hg, hl) == Kilo(FSub(hg, hl))

\* the step-by-step cells, in the order of the notebook
StepCells ==
    <<"gas1", "reactants", "h_reac_mass", "Y_C3H8_reac", "n_atoms", "a",
      "N", "X_prod", "h_prod_mass", "lhv", "water", "h_fg", "m_h2o", "hhv">>

\* what running step-by-step cell c does to s, the record of gas1, water and
\* the names of the notebook
StepCell(c, s) ==
    LET g == s.glob
    IN  CASE c = "gas1" -> [s EXCEPT !.gas1 = NewSolution]
          [] c = "reactants" ->
                [s EXCEPT !.glob = [g EXCEPT !.fuel = "C3H8", !.air = AirN2,
                                             !.phi = Lit(1, 1)],
                          !.gas1 = set_equivalence_ratio(
                                       SetTP(s.gas1, 29815, one_atm),
                                       Lit(1, 1), "C3H8", Oxidizer(AirN2))]
          [] c = "h_reac_mass" ->
                [s EXCEPT !.glob.h_reac_mass = enthalpy_mass(s.gas1)]
          [] c = "Y_C3H8_reac" ->
                [s EXCEPT !.glob.Y_C3H8_reac = mass_fraction(s.gas1, "C3H8")]
          [] c = "n_atoms" ->
                [s EXCEPT !.glob = [g EXCEPT !.x = n_atoms(g.fuel, "C"),
                                             !.y = n_atoms(g.fuel, "H"),
                                             !.z = n_atoms(g.fuel, "O")]]
          [] c = "a" -> [s EXCEPT !.glob.a = OxygenMoles(g.x, g.y, g.z)]
          [] c = "N" ->
                [s EXCEPT !.glob = [g EXCEPT !.N_CO2 = MolesCO2(g.x),
                                             !.N_H2O = MolesH2O(g.y),
                                             !.N_N2 = MolesN2(AirN2, g.a)]]
          [] c = "X_prod" ->
                LET xp == ProductMoles(g.N_CO2, g.N_H2O, g.N_N2)
                IN  [s EXCEPT !.glob.X_prod = xp, !.gas1 = SetX(s.gas1, xp)]
          [] c = "h_prod_mass" ->
                [s EXCEPT !.glob.h_prod_mass = enthalpy_mass(s.gas1)]
          [] c = "lhv" ->
                LET lhv == LowerHeatingValue(g.h_reac_mass, g.h_prod_mass,
                                             g.Y_C3H8_reac)
                IN  [s EXCEPT !.glob = [g EXCEPT
                                           !.lhv_mass = Kilo(lhv),
                                           !.lhv_mole = Kilo(PerMole(lhv, "C3H8"))]]
          [] c = "water" -> [s EXCEPT !.water = NewWater]
          [] c = "h_fg" ->
                LET hl == water_h(SetTX(s.water, 29815, 0))
                    hg == water_h(SetTX(s.water, 29815, 1))
                    hfg == LatentHeatKilo(hg, hl)
                IN  [s EXCEPT !.water = SetTX(s.water, 29815, 1),
                              !.glob = [g EXCEPT
                                           !.h_liq = hl, !.h_gas = hg,
                                           !.h_fg = hfg,
                                           !.hbar_fg = FMul(hfg,
                                               molecular_weight("H2O"))]]
          [] c = "m_h2o" -> [s EXCEPT !.glob.m_h2o = WaterMass(g.N_H2O, "C3H8")]
          [] c = "hhv" ->
                LET hhv == HigherHeatingValue(g.lhv_mass, g.m_h2o, g.h_fg)
                IN  [s EXCEPT !.glob = [g EXCEPT
                                           !.hhv_mass = hhv,
                                           !.hhv_mole = PerMole(hhv, "C3H8")]]

\* fuels = ['H2', 'CH4', 'C2H6', 'C3H8', 'C2H2', 'CH3OH']
NotebookFuels == <<"H2", "CH4", "C2H6", "C3H8", "C2H2", "CH3OH">>

\* the lists the last cell is run with: the list of the notebook, and a list
\* that names a fuel gas does not hold
FuelLists == {NotebookFuels, <<"C3H8", UnknownFuel, "CH4">>}

\* i before the loop assigns it
BeforeLoop == -1

\* hvs = np.zeros(shape=(nfuels,4))
Zeros(n) == [r \in 1 .. n |-> <<Zero, Zero, Zero, Zero>>]

\* the two lines of the table header, as printed
Header ==
    <<" Fuel            LHV            LHV            HHV             HHV",
      " Type          (kJ/kg)       (kJ/kmol)       (kJ/kg)        (kJ/kmol)">>

\* n / d rounded to the nearest integer, ties to even (n >= 0, d > 0)
RoundDiv(n, d) ==
    LET q == n \div d
        r == n % d
    IN  IF 2 * r > d \/ (2 * r = d /\ q % 2 = 1) THEN q + 1 ELSE q

\* '{:15f}'.format(u): u in fixed point with six decimals, as the triple of
\* its sign, its integer part and its millionths
Fixed6(u) ==
    LET m == Abs(u[1])
        k == -u[2]
        whole == IF k <= 0 THEN m * Pow2(-k)
                 ELSE IF k > 30 THEN 0 ELSE m \div Pow2(k)
        rest == IF k <= 0 THEN 0 ELSE IF k > 30 THEN m ELSE m % Pow2(k)
        \* rest * 10^6 / 2^k, with 10^6 = 15625 * 2^6
        micro == IF k <= 6 THEN rest * 15625 * Pow2(6 - k)
                 ELSE IF k > 36 THEN 0
                 ELSE RoundDiv(rest * 15625, Pow2(k - 6))
    IN  IF micro = 1000000 THEN <<Sign(u[1]), whole + 1, 0>>
        ELSE <<Sign(u[1]), whole, micro>>

\* ' {:8s} {:15f} {:15f}{:15f} {:15f}'.format(fueli, hvs[i,0]/1000., ...)
TableLine(f, row) ==
    <<f, Fixed6(Kilo(row[1])), Fixed6(Kilo(row[2])), Fixed6(Kilo(row[3])),
      Fixed6(Kilo(row[4]))>>

\* no call of heating_values is made yet
NoCall ==
    /\ pc = "idle"
    /\ calls = 0
    /\ fuel = NoArgument
    /\ loc = NewFrame
    /\ ret = Unbound
    /\ exc = "none"
    /\ log = <<>>

\* a session that holds the function and a gas and a water as created: no
\* other cell of the notebook has run, and none is under way
Init ==
    /\ gas = NewSolution
    /\ water = NewWater
    /\ NoCall
    /\ cell = "done"
    /\ gas1 = Unbound
    /\ glob = NoGlobals
    /\ fuels = <<>>
    /\ index = BeforeLoop
    /\ hvs = <<>>
    /\ out = <<>>
    /\ pass = 1

\* heating_values(f) is entered: a new frame
Enter(f) ==
    /\ pc = "idle"
    /\ calls' = calls + 1
    /\ fuel' = f
    /\ loc' = NewFrame
    /\ ret' = Unbound
    /\ log' = <<>>
    /\ pc' = "gas.TP"
    /\ UNCHANGED <<gas, water, exc>>

\* the caller evaluates heating_values(f)
Call(f) ==
    /\ calls < MaxCalls
    /\ Enter(f)
    /\ UNCHANGED notebook

\* gas.TP = T_ref , P_ref
SetReferenceState ==
    /\ pc = "gas.TP"
    /\ gas' = SetTP(gas, T_ref, P_ref)
    /\ log' = Append(log, "gas.TP")
    /\ pc' = "set_equivalence_ratio"
    /\ UNCHANGED <<water, calls, fuel, loc, ret, exc, notebook>>

\* a mixture step with the equivalence ratio 0.0: oxidizer and no fuel
SetStoichiometric_lean ==
    /\ pc = "set_equivalence_ratio"
    /\ fuel \in GasSpecies
    /\ gas' = set_equivalence_ratio(gas, Zero, fuel, Oxidizer(AirN2))
    /\ log' = Append(log, "gas.set_equivalence_ratio")
    /\ pc' = "Y_fuel_reac"
    /\ UNCHANGED <<water, calls, fuel, loc, ret, exc, notebook>>

\* gas.set_equivalence_ratio(1.0, fuel, air), fuel a species of gas
SetStoichiometric ==
    /\ pc = "set_equivalence_ratio"
    /\ fuel \in GasSpecies
    /\ gas' = set_equivalence_ratio(gas, Lit(1, 1), fuel, Oxidizer(AirN2))
    /\ log' = Append(log, "gas.set_equivalence_ratio")
    /\ pc' = "Y_fuel_reac"
    /\ UNCHANGED <<water, calls, fuel, loc, ret, exc, notebook>>

\* a call that catches the library's exception and returns zeros
RaiseUnknownSpecies_caught ==
    /\ pc = "set_equivalence_ratio"
    /\ fuel \notin GasSpecies
    /\ ret' = <<Zero, Zero, Zero, Zero>>
    /\ pc' = "idle"
    /\ UNCHANGED <<gas, water, calls, fuel, loc, exc, log, notebook>>

\* a library that has set the composition to the oxidizer by the time it
\* finds that the fuel is no species of gas
RaiseUnknownSpecies_oxidizer ==
    /\ pc = "set_equivalence_ratio"
    /\ fuel \notin GasSpecies
    /\ gas' = SetX(gas, Oxidizer(AirN2))
    /\ exc' = "CanteraError"
    /\ pc' = "raised"
    /\ UNCHANGED <<water, calls, fuel, loc, ret, log, notebook>>

\* gas.set_equivalence_ratio(1.0, fuel, air), fuel no species of gas: the
\* library raises, nothing in heating_values catches it, and the cell that
\* made the call ends
RaiseUnknownSpecies ==
    /\ pc = "set_equivalence_ratio"
    /\ fuel \notin GasSpecies
    /\ exc' = "CanteraError"
    /\ pc' = "raised"
    /\ UNCHANGED <<gas, water, calls, fuel, loc, ret, log, notebook>>

\* Y_fuel_reac = gas.Y[gas.species_index(fuel)]
ReadFuelMassFraction ==
    /\ pc = "Y_fuel_reac"
    /\ loc' = [loc EXCEPT !.Y_fuel_reac = mass_fraction(gas, fuel)]
    /\ log' = Append(log, "gas.Y")
    /\ pc' = "h_reac_mass"
    /\ UNCHANGED <<gas, water, calls, fuel, ret, exc, notebook>>

\* h_reac_mass read only after the composition is reset to the products
ReadReactantEnthalpy_late ==
    /\ pc = "h_reac_mass"
    /\ loc' = [loc EXCEPT !.h_reac_mass =
                   enthalpy_mass(SetX(gas, ProductMoles(
                       MolesCO2(n_atoms(fuel, "C")), MolesH2O(n_atoms(fuel, "H")),
                       MolesN2(AirN2, OxygenMoles(n_atoms(fuel, "C"),
                                                  n_atoms(fuel, "H"),
                                                  n_atoms(fuel, "O"))))))]
    /\ log' = Append(log, "gas.enthalpy_mass")
    /\ pc' = "n_atoms"
    /\ UNCHANGED <<gas, water, calls, fuel, ret, exc, notebook>>

\* h_reac_mass = gas.enthalpy_mass
ReadReactantEnthalpy ==
    /\ pc = "h_reac_mass"
    /\ loc' = [loc EXCEPT !.h_reac_mass = enthalpy_mass(gas)]
    /\ log' = Append(log, "gas.enthalpy_mass")
    /\ pc' = "n_atoms"
    /\ UNCHANGED <<gas, water, calls, fuel, ret, exc, notebook>>

\* x, y, z = gas.n_atoms(fuel,'C'), gas.n_atoms(fuel,'H'), gas.n_atoms(fuel,'O')
ReadAtomCounts ==
    /\ pc = "n_atoms"
    /\ loc' = [loc EXCEPT !.x = n_atoms(fuel, "C"),
                          !.y = n_atoms(fuel, "H"),
                          !.z = n_atoms(fuel, "O")]
    /\ pc' = "a"
    /\ UNCHANGED <<gas, water, calls, fuel, ret, exc, log, notebook>>

\* a, N_CO2, N_H2O, N_N2 and X_prod
ComputeProductMoles ==
    /\ pc = "a"
    /\ LET aa == OxygenMoles(loc.x, loc.y, loc.z)
           nco2 == MolesCO2(loc.x)
           nh2o == MolesH2O(loc.y)
           nn2 == MolesN2(AirN2, aa)
       IN  loc' = [loc EXCEPT !.a = aa, !.N_CO2 = nco2, !.N_H2O = nh2o,
                              !.N_N2 = nn2,
                              !.X_prod = ProductMoles(nco2, nh2o, nn2)]
    /\ pc' = "gas.TPX"
    /\ UNCHANGED <<gas, water, calls, fuel, ret, exc, log, notebook>>

\* a product step that reads the enthalpy without resetting the composition
SetProducts_skip ==
    /\ pc = "gas.TPX"
    /\ log' = Append(log, "gas.TPX")
    /\ pc' = "h_prod_mass"
    /\ UNCHANGED <<gas, water, calls, fuel, loc, ret, exc, notebook>>

\* gas.TPX = None , None , X_prod
SetProducts ==
    /\ pc = "gas.TPX"
    /\ gas' = SetX(gas, loc.X_prod)
    /\ log' = Append(log, "gas.TPX")
    /\ pc' = "h_prod_mass"
    /\ UNCHANGED <<water, calls, fuel, loc, ret, exc, notebook>>

\* h_prod_mass = gas.enthalpy_mass
ReadProductEnthalpy ==
    /\ pc = "h_prod_mass"
    /\ loc' = [loc EXCEPT !.h_prod_mass = enthalpy_mass(gas)]
    /\ log' = Append(log, "gas.enthalpy_mass")
    /\ pc' = "lhv"
    /\ UNCHANGED <<gas, water, calls, fuel, ret, exc, notebook>>

\* a step that assigns lhv_mass and lhv_mole as names of the notebook too,
\* as under a global statement
ComputeLHV_global ==
    /\ pc = "lhv"
    /\ LET lhv == LowerHeatingValue(loc.h_reac_mass, loc.h_prod_mass,
                                    loc.Y_fuel_reac)
       IN  /\ loc' = [loc EXCEPT !.lhv_mass = lhv,
                                 !.lhv_mole = PerMole(lhv, fuel)]
           /\ glob' = [glob EXCEPT !.lhv_mass = lhv,
                                   !.lhv_mole = PerMole(lhv, fuel)]
    /\ pc' = "h_liq"
    /\ UNCHANGED <<gas, water, calls, fuel, ret, exc, log, cell, gas1, fuels,
                   index, hvs, out, pass>>

\* lhv_mass and lhv_mole
ComputeLHV ==
    /\ pc = "lhv"
    /\ LET lhv == LowerHeatingValue(loc.h_reac_mass, loc.h_prod_mass,
                                    loc.Y_fuel_reac)
       IN  loc' = [loc EXCEPT !.lhv_mass = lhv, !.lhv_mole = PerMole(lhv, fuel)]
    /\ pc' = "h_liq"
    /\ UNCHANGED <<gas, water, calls, fuel, ret, exc, log, notebook>>

\* water.TX = T_ref, 0.0 ; h_liq = water.h
ReadWaterLiquid ==
    /\ pc = "h_liq"
    /\ water' = SetTX(water, T_ref, 0)
    /\ loc' = [loc EXCEPT !.h_liq = water_h(water')]
    /\ log' = log \o <<"water.TX", "water.h">>
    /\ pc' = "h_gas"
    /\ UNCHANGED <<gas, calls, fuel, ret, exc, notebook>>

\* water.TX = T_ref, 1.0 ; h_gas = water.h ; h_fg = h_gas - h_liq
ReadWaterVapor ==
    /\ pc = "h_gas"
    /\ water' = SetTX(water, T_ref, 1)
    /\ loc' = [loc EXCEPT !.h_gas = water_h(water'),
                          !.h_fg = FSub(water_h(water'), loc.h_liq)]
    /\ log' = log \o <<"water.TX", "water.h">>
    /\ pc' = "hhv"
    /\ UNCHANGED <<gas, calls, fuel, ret, exc, notebook>>

\* a step that adds the latent heat per mass of fuel to the lower heating
\* value per mole
ComputeHHV_permass ==
    /\ pc = "hhv"
    /\ LET mw == WaterMass(loc.N_H2O, fuel)
           hhv == HigherHeatingValue(loc.lhv_mass, mw, loc.h_fg)
       IN  loc' = [loc EXCEPT !.m_h2o = mw, !.hhv_mass = hhv,
                              !.hhv_mole = HigherHeatingValue(loc.lhv_mole,
                                                              mw, loc.h_fg)]
    /\ pc' = "return"
    /\ UNCHANGED <<gas, water, calls, fuel, ret, exc, log, notebook>>

\* m_h2o, hhv_mass and hhv_mole
ComputeHHV ==
    /\ pc = "hhv"
    /\ LET mw == WaterMass(loc.N_H2O, fuel)
           hhv == HigherHeatingValue(loc.lhv_mass, mw, loc.h_fg)
       IN  loc' = [loc EXCEPT !.m_h2o = mw, !.hhv_mass = hhv,
                              !.hhv_mole = PerMole(hhv, fuel)]
    /\ pc' = "return"
    /\ UNCHANGED <<gas, water, calls, fuel, ret, exc, log, notebook>>

\* return lhv_mass,lhv_mole,hhv_mass,hhv_mole
Return ==
    /\ pc = "return"
    /\ ret' = <<loc.lhv_mass, loc.lhv_mole, loc.hhv_mass, loc.hhv_mole>>
    /\ pc' = "idle"
    /\ UNCHANGED <<gas, water, calls, fuel, loc, exc, log, notebook>>

Next ==
    \/ \E f \in FuelInputs : Call(f)
    \/ SetReferenceState
    \/ SetStoichiometric
    \/ RaiseUnknownSpecies
    \/ ReadFuelMassFraction
    \/ ReadReactantEnthalpy
    \/ ReadAtomCounts
    \/ ComputeProductMoles
    \/ SetProducts
    \/ ReadProductEnthalpy
    \/ ComputeLHV
    \/ ReadWaterLiquid
    \/ ReadWaterVapor
    \/ ComputeHHV
    \/ Return

Spec == Init /\ [][Next]_vars

-----------------------------------------------------------------------------
(* The notebook, its cells run in order from the top.                      *)

\* a new session: no name is bound, no cell is run
NotebookInit ==
    /\ gas = Unbound
    /\ water = Unbound
    /\ NoCall
    /\ cell = StepCells[1]
    /\ gas1 = Unbound
    /\ glob = NoGlobals
    /\ fuels = <<>>
    /\ index = BeforeLoop
    /\ hvs = <<>>
    /\ out = <<>>
    /\ pass = 1

\* cells of which the one of lhv_mass divides by 1000. the value the name
\* holds from an earlier pass
RunCell_inplace(n) ==
    /\ cell = StepCells[n]
    /\ LET s == StepCell(cell, [gas1 |-> gas1, water |-> water, glob |-> glob])
       IN  /\ gas1' = s.gas1
           /\ water' = s.water
           /\ glob' = IF cell = "lhv" /\ glob.lhv_mass # Unbound
                      THEN [s.glob EXCEPT !.lhv_mass = Kilo(glob.lhv_mass)]
                      ELSE s.glob
    /\ cell' = IF n < Len(StepCells) THEN StepCells[n + 1] ELSE "def"
    /\ UNCHANGED <<gas, pc, calls, fuel, loc, ret, exc, log, fuels, index,
                   hvs, out, pass>>

\* step-by-step cell number n is run
RunCell(n) ==
    /\ cell = StepCells[n]
    /\ LET s == StepCell(cell, [gas1 |-> gas1, water |-> water, glob |-> glob])
       IN  /\ gas1' = s.gas1
           /\ water' = s.water
           /\ glob' = s.glob
    /\ cell' = IF n < Len(StepCells) THEN StepCells[n + 1] ELSE "def"
    /\ UNCHANGED <<gas, pc, calls, fuel, loc, ret, exc, log, fuels, index,
                   hvs, out, pass>>

\* def heating_values(fuel): the cell binds the name of the function
DefineFunction ==
    /\ cell = "def"
    /\ cell' = "gas"
    /\ UNCHANGED <<gas, water, pc, calls, fuel, loc, ret, exc, log, gas1,
                   glob, fuels, index, hvs, out, pass>>

\* a last cell that goes on to the loop with the name gas not bound
BindObjects_nogas(l) ==
    /\ cell = "gas"
    /\ water' = NewWater
    /\ fuels' = l
    /\ hvs' = Zeros(Len(l))
    /\ out' = Header
    /\ cell' = "for"
    /\ index' = BeforeLoop
    /\ UNCHANGED <<gas, pc, calls, fuel, loc, ret, exc, log, gas1, glob, pass>>

\* the last cell down to the loop: gas, water, fuels, nfuels, hvs and the
\* two header lines; its for statement starts a new enumeration
BindObjects(l) ==
    /\ cell = "gas"
    /\ gas' = NewSolution
    /\ water' = NewWater
    /\ fuels' = l
    /\ hvs' = Zeros(Len(l))
    /\ out' = Header
    /\ cell' = "for"
    /\ index' = BeforeLoop
    /\ UNCHANGED <<pc, calls, fuel, loc, ret, exc, log, gas1, glob, pass>>

\* for i , fueli in enumerate(fuels): the next index, or the end of the loop
LoopNext ==
    /\ cell = "for"
    /\ IF index + 1 < Len(fuels)
       THEN index' = index + 1 /\ cell' = "call"
       ELSE index' = index /\ cell' = "done"
    /\ UNCHANGED <<gas, water, pc, calls, fuel, loc, ret, exc, log, gas1,
                   glob, fuels, hvs, out, pass>>

\* the right-hand side of hvs[i,:] = heating_values(fueli)
LoopCall ==
    /\ cell = "call"
    /\ Enter(fuels[index + 1])
    /\ cell' = "store"
    /\ UNCHANGED <<gas1, glob, fuels, index, hvs, out, pass>>

\* a row assignment that always writes the first row
StoreRow_first ==
    /\ cell = "store"
    /\ pc = "idle"
    /\ hvs' = [hvs EXCEPT ![1] = ret]
    /\ cell' = "print"
    /\ UNCHANGED <<gas, water, pc, calls, fuel, loc, ret, exc, log, gas1,
                   glob, fuels, index, out, pass>>

\* a row assignment in a loop that catches the exception of the call and
\* goes on with the next fuel
StoreRow_resume ==
    /\ cell = "store"
    /\ pc \in {"idle", "raised"}
    /\ hvs' = IF pc = "idle" THEN [hvs EXCEPT ![index + 1] = ret] ELSE hvs
    /\ pc' = "idle"
    /\ cell' = "print"
    /\ UNCHANGED <<gas, water, calls, fuel, loc, ret, exc, log, gas1,
                   glob, fuels, index, out, pass>>

\* hvs[i,:] = heating_values(fueli), once the call has returned
StoreRow ==
    /\ cell = "store"
    /\ pc = "idle"
    /\ hvs' = [hvs EXCEPT ![index + 1] = ret]
    /\ cell' = "print"
    /\ UNCHANGED <<gas, water, pc, calls, fuel, loc, ret, exc, log, gas1,
                   glob, fuels, index, out, pass>>

\* print(' {:8s} {:15f} ...'.format(fueli, hvs[i,0]/1000., ...))
PrintRow ==
    /\ cell = "print"
    /\ out' = Append(out, TableLine(fuels[index + 1], hvs[index + 1]))
    /\ cell' = "for"
    /\ UNCHANGED <<gas, water, pc, calls, fuel, loc, ret, exc, log, gas1,
                   glob, fuels, index, hvs, pass>>

\* a cell run after the last one evaluates heating_values(f)
LaterCall(f) ==
    /\ cell = "done"
    /\ calls < Len(fuels) + MaxCalls
    /\ Enter(f)
    /\ UNCHANGED notebook

\* the cells are run from the top once more, in the same session
RunAgain ==
    /\ cell = "done"
    /\ pc = "idle"
    /\ pass < MaxPasses
    /\ pass' = pass + 1
    /\ cell' = StepCells[1]
    /\ UNCHANGED <<gas, water, pc, calls, fuel, loc, ret, exc, log, gas1,
                   glob, fuels, index, hvs, out>>

NotebookNext ==
    \/ \E n \in 1 .. Len(StepCells) : RunCell(n)
    \/ DefineFunction
    \/ \E l \in FuelLists : BindObjects(l)
    \/ LoopNext
    \/ LoopCall
    \/ StoreRow
    \/ PrintRow
    \/ \E f \in FuelInputs : LaterCall(f)
    \/ RunAgain
    \/ SetReferenceState
    \/ SetStoichiometric
    \/ RaiseUnknownSpecies
    \/ ReadFuelMassFraction
    \/ ReadReactantEnthalpy
    \/ ReadAtomCounts
    \/ ComputeProductMoles
    \/ SetProducts
    \/ ReadProductEnthalpy
    \/ ComputeLHV
    \/ ReadWaterLiquid
    \/ ReadWaterVapor
    \/ ComputeHHV
    \/ Return

Notebook == NotebookInit /\ [][NotebookNext]_vars

-----------------------------------------------------------------------------
(* Properties.                                                             *)

\* |t| is at most n units in the last place of w (n below 2^(Precision-1))
MagLeqUlps(t, n, w) ==
    \/ t = Zero
    \/ /\ w # Zero
       /\ t[2] <= w[2]
       /\ \/ w[2] - t[2] >= Precision
          \/ Abs(t[1]) <= n * Pow2(w[2] - t[2])

\* u and v differ by at most n units in the last place of w
WithinUlps(u, v, n, w) == MagLeqUlps(FSub(u, v), n, w)

\* C1: once a, N_CO2, N_H2O and N_N2 are computed, the reactants
\* 1 fuel + a O2 + 3.76a N2 and the products N_CO2 CO2 + N_H2O H2O + N_N2 N2
\* hold the same number of C, of H, of O and of N atoms.
C1_AtomsConserved ==
    loc.a # Unbound =>
        /\ loc.x = loc.N_CO2
        /\ loc.y = FMul(Lit(2, 1), loc.N_H2O)
        /\ FAdd(loc.z, FMul(Lit(2, 1), loc.a))
               = FAdd(FMul(Lit(2, 1), loc.N_CO2), loc.N_H2O)
        /\ FMul(Lit(2, 1), FMul(AirN2, loc.a)) = FMul(Lit(2, 1), loc.N_N2)

\* methanol: x = 1, y = 4, z = 1, a = 3/2, two H2O
C1_Witness ==
    /\ fuel = "CH3OH"
    /\ loc.a = Lit(3, 2)
    /\ loc.N_CO2 = Lit(1, 1)
    /\ loc.N_H2O = Lit(2, 1)

\* the call returned: the caller holds the tuple, the frame is as it ended
Returned == pc = "idle" /\ ret # Unbound

\* C2 as stated: the float difference HHV_mass - LHV_mass is the float
\* product m_H2O * h_fg, bit for bit.
C2_ExactDifference ==
    Returned => FSub(ret[3], ret[1]) = FMul(loc.m_h2o, loc.h_fg)

\* C2: for every fuel the call returns for, HHV_mass is the float sum of
\* LHV_mass and m_H2O * h_fg, so HHV_mass - LHV_mass and m_H2O * h_fg differ
\* by no more than one unit in the last place of HHV_mass; m_H2O is
\* N_H2O * MW_H2O / MW_fuel and h_fg the vapor minus the liquid enthalpy of
\* water at T_ref.
C2_LatentHeatDifference ==
    Returned =>
        /\ ret[3] = FAdd(ret[1], FMul(loc.m_h2o, loc.h_fg))
        /\ WithinUlps(FSub(ret[3], ret[1]), FMul(loc.m_h2o, loc.h_fg), 1, ret[3])
        /\ loc.m_h2o = FDiv(FMul(MolesH2O(n_atoms(fuel, "H")),
                                 molecular_weight("H2O")),
                            molecular_weight(fuel))
        /\ loc.h_fg = FSub(WaterEnthalpy(T_ref, 1), WaterEnthalpy(T_ref, 0))

\* methane returned, and its difference is not the product bit for bit
C2_Witness ==
    /\ Returned
    /\ fuel = "CH4"
    /\ FSub(ret[3], ret[1]) # FMul(loc.m_h2o, loc.h_fg)
    /\ FLess(ret[1], ret[3])

\* C3: the call returns four scalars, in the order LHV per mass, LHV per
\* mole, HHV per mass, HHV per mole, and each per-mole value is the per-mass
\* value times the molecular weight of the fuel.
C3_FourScalars ==
    Returned =>
        /\ Len(ret) = 4
        /\ \A i \in 1 .. 4 : ret[i] \in Int \X Int
        /\ ret = <<loc.lhv_mass, loc.lhv_mole, loc.hhv_mass, loc.hhv_mole>>
        /\ ret[1] = LowerHeatingValue(loc.h_reac_mass, loc.h_prod_mass,
                                      loc.Y_fuel_reac)
        /\ ret[2] = FMul(ret[1], molecular_weight(fuel))
        /\ ret[3] = HigherHeatingValue(ret[1], loc.m_h2o, loc.h_fg)
        /\ ret[4] = FMul(ret[3], molecular_weight(fuel))

\* ethane returned four distinct values
C3_Witness ==
    /\ Returned
    /\ fuel = "C2H6"
    /\ Cardinality({ret[i] : i \in 1 .. 4}) = 4

\* the reactant mixture of a call with fuel f, and its product mixture
Reactants(f) ==
    set_equivalence_ratio(SetTP(NewSolution, T_ref, P_ref), Lit(1, 1), f,
                          Oxidizer(AirN2))

Products(f) ==
    SetX(Reactants(f),
         ProductMoles(MolesCO2(n_atoms(f, "C")), MolesH2O(n_atoms(f, "H")),
                      MolesN2(AirN2, OxygenMoles(n_atoms(f, "C"), n_atoms(f, "H"),
                                                 n_atoms(f, "O")))))

\* the accesses of one call to gas, in the order of the source
GasAccessOrder ==
    <<"gas.TP", "gas.set_equivalence_ratio", "gas.Y", "gas.enthalpy_mass",
      "gas.TPX", "gas.enthalpy_mass">>

\* C4: in one call the gas is first set to the stoichiometric reactants,
\* Y_fuel and h_reac are read in that state, only then is the composition
\* reset to the products and h_prod read, and LHV_mass is computed from the
\* Y_fuel and h_reac of the reactants.
C4_ReadBeforeReset ==
    /\ pc \in {"Y_fuel_reac", "h_reac_mass"} => gas.X = Reactants(fuel).X
    /\ loc.Y_fuel_reac # Unbound =>
           loc.Y_fuel_reac = mass_fraction(Reactants(fuel), fuel)
    /\ loc.h_reac_mass # Unbound =>
           loc.h_reac_mass = enthalpy_mass(Reactants(fuel))
    /\ pc = "gas.TPX" =>
           /\ loc.Y_fuel_reac # Unbound
           /\ loc.h_reac_mass # Unbound
           /\ loc.h_prod_mass = Unbound
    /\ loc.h_prod_mass # Unbound =>
           /\ loc.h_prod_mass = enthalpy_mass(Products(fuel))
           /\ Len(log) >= Len(GasAccessOrder)
           /\ SubSeq(log, 1, Len(GasAccessOrder)) = GasAccessOrder
    /\ loc.lhv_mass # Unbound =>
           loc.lhv_mass = LowerHeatingValue(enthalpy_mass(Reactants(fuel)),
                                            enthalpy_mass(Products(fuel)),
                                            mass_fraction(Reactants(fuel), fuel))

\* propane: LHV computed while the gas holds the products, from a reactant
\* enthalpy that is not the enthalpy the gas has now
C4_Witness ==
    /\ fuel = "C3H8"
    /\ loc.lhv_mass # Unbound
    /\ gas.X = Products(fuel).X
    /\ loc.h_reac_mass # enthalpy_mass(gas)
    /\ loc.h_prod_mass = enthalpy_mass(gas)

\* C5: the gas is at T_ref and P_ref when Y_fuel and h_reac_mass are read,


\* gas.TPX = None, None, X_prod changes neither, and the gas is at the same
\* T_ref and P_ref when h_prod_mass is read.
C5_SameReferenceState ==
    /\ pc \in {"Y_fuel_reac", "h_reac_mass", "n_atoms", "a", "gas.TPX",
                "h_prod_mass", "lhv"} =>
           gas.T = T_ref /\ gas.P = P_ref
    /\ loc.h_reac_mass # Unbound /\ pc # "idle" =>
           loc.h_reac_mass = enthalpy_mass(SetTP(Reactants(fuel), T_ref, P_ref))
    /\ loc.h_prod_mass # Unbound /\ pc # "idle" =>
           loc.h_prod_mass = enthalpy_mass(SetTP(Products(fuel), T_ref, P_ref))

\* acetylene: the second read is made, at the reference state, from a gas
\* that was built at another temperature
C5_Witness ==
    /\ fuel = "C2H2"
    /\ pc = "lhv"
    /\ loc.h_prod_mass # Unbound
    /\ gas.T = T_ref /\ gas.P = P_ref
    /\ NewSolution.T # T_ref

FAbs(u) == <<Abs(u[1]), u[2]>>

\* u and v differ by at most n units in the last place of the larger
Close(u, v, n) == WithinUlps(u, v, n, FMax(FAbs(u), FAbs(v)))

\* the moles of every species the gas takes for the relative mole numbers
\* c, before they are divided by their sum
Taken(c) == [k \in GasSpecies |-> FMax(c[k], Zero)]

\* atoms of element el per mole of fuel f in the mixture g
AtomsPerFuel(g, f, el) == FDiv(ElementSum(g.X, el), g.X[f])

\* C6: when the products are about to be set, the gas holds the reactants
\* in the mole ratio fuel : O2 : N2 = 1 : a : 3.76a, with the a computed for
\* the products, and the products the gas is then set to hold the same
\* atoms of every element per mole of fuel and no O2 (all of it to 16 units
\* in the last place).
C6_StoichiometricReactants ==
    /\ pc = "gas.TPX" =>
           /\ Close(FDiv(gas.X["O2"], gas.X[fuel]), loc.a, 16)
           /\ Close(FDiv(gas.X["N2"], gas.X[fuel]), FMul(AirN2, loc.a), 16)
           /\ \A el \in {"C", "H", "O", "N"} :
                  Close(AtomsPerFuel(gas, fuel, el),
                        ElementSum(Taken(loc.X_prod), el), 16)
    /\ pc = "h_prod_mass" => gas.X["O2"] = Zero

\* mass per mole of fuel of the reactants the fuel mass fraction was read
\* from, and of the products the gas was set to (kg/kmol of fuel)
ReactantMassPerFuel == FDiv(molecular_weight(fuel), loc.Y_fuel_reac)

ProductMassPerFuel ==
    SumOver([k \in GasSpecies |->
                FMul(Taken(loc.X_prod)[k], molecular_weight(k))])

\* C8: once LHV_mass is computed, the mass of the products per mole of fuel
\* is the mass of the reactants per mole of fuel, and LHV_mass is the
\* enthalpy of the reactants minus the enthalpy of the products, both per
\* mole of fuel, over the molecular weight of the fuel (to 16 units in the
\* last place, for LHV_mass of the larger of the two enthalpies per unit
\* mass of fuel).
C8_MassConserved ==
    pc = "h_liq" =>
        LET mw == molecular_weight(fuel)
            hr == FMul(loc.h_reac_mass, ReactantMassPerFuel)
            hp == FMul(loc.h_prod_mass, ProductMassPerFuel)
        IN  /\ Close(ReactantMassPerFuel, ProductMassPerFuel, 16)
            /\ WithinUlps(loc.lhv_mass, FDiv(FSub(hr, hp), mw), 16,
                          FDiv(FMax(FAbs(hr), FAbs(hp)), mw))

\* N2 per O2 in the oxidizer, other than the 3.76 of air
OtherN2 == {Zero, Lit(1, 1), Lit(2, 1), Lit(5, 1)}

C9_HigherNotBelowLower ==
    Returned =>
        /\ FLess(Zero, loc.h_fg)
        /\ FLeq(ret[1], ret[3])
        /\ FLeq(ret[2], ret[4])
        /\ ret[1] = ret[3] <=> Atoms(fuel)[2] = 0
        /\ ret[2] = ret[4] <=> Atoms(fuel)[2] = 0
        /\ Atoms(fuel)[2] = 0 <=> loc.N_H2O = Zero

\* carbon monoxide: no water in the products, HHV is LHV
C9_Witness ==
    /\ Returned
    /\ fuel = "CO"
    /\ loc.N_H2O = Zero
    /\ ret[3] = ret[1]
    /\ FLess(Zero, ret[1])

\* C10: a call with a fuel that is no species of gas ends with the
\* library's exception at set_equivalence_ratio: it binds no local, returns
\* no tuple, nothing catches the exception and nothing runs after it.
C10_UnknownFuelRaises ==
    /\ (fuel # NoArgument /\ fuel \notin GasSpecies) =>
           /\ pc \in {"gas.TP", "set_equivalence_ratio", "raised"}
           /\ ret = Unbound
           /\ loc = NewFrame
    /\ pc = "raised" =>
           /\ fuel \notin GasSpecies
           /\ exc = "CanteraError"
           /\ ~ ENABLED Next
    /\ exc # "none" => pc = "raised"

\* the second call of a cell is made with a fuel gas does not know, after
\* gas.TP was set
C10_Witness ==
    /\ pc = "raised"
    /\ fuel = UnknownFuel
    /\ calls = 2
    /\ exc = "CanteraError"
    /\ ret = Unbound
    /\ log = <<"gas.TP">>

\* C14: h_fg is the enthalpy of water at T_ref with vapor fraction 1 minus
\* the enthalpy of water at T_ref with vapor fraction 0; water is pure
\* liquid at T_ref when h_liq is read and pure vapor at T_ref when h_gas is
\* read; the value of h_fg is the same whatever the fuel of the call.
C14_LatentHeat ==
    /\ loc.h_liq # Unbound =>
           /\ loc.h_liq = WaterEnthalpy(T_ref, 0)
           /\ pc = "h_gas" => water = [T |-> T_ref, Q |-> 0]
    /\ loc.h_gas # Unbound =>
           /\ loc.h_gas = WaterEnthalpy(T_ref, 1)
           /\ loc.h_fg = FSub(WaterEnthalpy(T_ref, 1), WaterEnthalpy(T_ref, 0))
           /\ pc = "hhv" => water = [T |-> T_ref, Q |-> 1]
           /\ log[Len(log) - 3] = "water.TX" /\ log[Len(log) - 2] = "water.h"
           /\ log[Len(log) - 1] = "water.TX" /\ log[Len(log)] = "water.h"

\* the first call, on the water as created at 300 K, has read both
\* enthalpies for ethane and holds a positive h_fg
C14_Witness ==
    /\ calls = 1
    /\ fuel = "C2H6"
    /\ pc = "hhv"
    /\ loc.h_fg = FSub(WaterEnthalpy(T_ref, 1), WaterEnthalpy(T_ref, 0))
    /\ FLess(Zero, loc.h_fg)

\* C17: the tuple a call returns for a fuel is the tuple the call returns
\* for that fuel on a gas and a water just created: what earlier calls left
\* in the two shared objects has no effect on it.
C17_HistoryIndependent ==
    Returned => ret = HeatingValuesWith(NewSolution, NewWater, fuel, AirN2)

\* a second call returned for hydrogen, made on the gas and the water an
\* earlier call had left at T_ref, no longer as created
C17_Witness ==
    /\ Returned
    /\ calls = 2
    /\ fuel = "H2"
    /\ gas.T # NewSolution.T
    /\ water # NewWater
    /\ ret = HeatingValuesWith(NewSolution, NewWater, "H2", AirN2)

\* C20: for every fuel C_xH_yO_z the call is made with, a = x + y/4 - z/2 is
\* not negative, and no product mole number N_CO2, N_H2O, N_N2 is negative.
C20_NonNegativeMoles ==
    loc.a # Unbound =>
        /\ FLeq(Zero, loc.a)
        /\ FLeq(Zero, loc.N_CO2)
        /\ FLeq(Zero, loc.N_H2O)
        /\ FLeq(Zero, loc.N_N2)

\* gas holds the composition the call set from X_prod
ProductsSet ==
    pc \in {"h_prod_mass", "lhv", "h_liq", "h_gas", "hhv", "return"} \/ Returned

\* C13: once gas is reset with X_prod, the mole fractions of CO2, H2O and N2
\* are N_i / (N_CO2 + N_H2O + N_N2) (to within rounding) and sum to unity (to
\* within rounding), and every other species has mole fraction zero.
C13_RelativeMoles ==
    ProductsSet =>
        LET total == FAdd(FAdd(loc.N_CO2, loc.N_H2O), loc.N_N2)
        IN  /\ Close(gas.X["CO2"], FDiv(loc.N_CO2, total), 16)
            /\ Close(gas.X["H2O"], FDiv(loc.N_H2O, total), 16)
            /\ Close(gas.X["N2"], FDiv(loc.N_N2, total), 16)
            /\ Close(FAdd(FAdd(gas.X["CO2"], gas.X["H2O"]), gas.X["N2"]),
                     Lit(1, 1), 16)
            /\ \A k \in GasSpecies \ {"CO2", "H2O", "N2"} : gas.X[k] = Zero

\* C12: with the cells run in order, whenever gas or water is not bound no
\* call of heating_values has been made and none is under way: every call
\* is made after gas and water are both bound.
C12_BoundBeforeCall ==
    /\ (gas = Unbound \/ water = Unbound) => (calls = 0 /\ pc = "idle")
    /\ pc # "idle" => (gas # Unbound /\ water # Unbound)

\* the first call of the loop is under way on the gas and the water the
\* same cell has just created
C12_Witness ==
    /\ cell = "store"
    /\ pc = "gas.TP"
    /\ calls = 1
    /\ gas = NewSolution
    /\ water = NewWater

\* row r of hvs holds the tuple of a call: the loop is past it, or at it and
\* not in its call
Stored(r) == r <= index \/ (r = index + 1 /\ cell \notin {"call", "store"})

Printed(r) == r + Len(Header) <= Len(out)

\* u is n to within one part in 400
About(u, n) == FLeq(FAbs(FSub(u, Lit(n, 1))), Lit(n, 400))

\* C11: for propane at 298.15 K and 1 atm the lower heating value is about
\* 46352 kJ/kg and the higher about 50343 kJ/kg, in the names lhv_mass and
\* hhv_mass of the step-by-step cells, in the row of hvs that holds
\* heating_values('C3H8') once divided by 1000, and in the line of the table
\* printed for C3H8.
C11_PropaneValues ==
    /\ glob.lhv_mass # Unbound => About(glob.lhv_mass, 46352)
    /\ glob.hhv_mass # Unbound => About(glob.hhv_mass, 50343)
    /\ \A r \in 1 .. Len(fuels) :
           fuels[r] = "C3H8" =>
               /\ Stored(r) =>
                      /\ About(Kilo(hvs[r][1]), 46352)
                      /\ About(Kilo(hvs[r][3]), 50343)
               /\ Printed(r) =>
                      LET line == out[r + Len(Header)]
                      IN  /\ line[1] = "C3H8"
                          /\ line[2][1] = 1 /\ line[4][1] = 1
                          /\ Abs(line[2][2] - 46352) <= 46352 \div 400
                          /\ Abs(line[4][2] - 50343) <= 50343 \div 400

\* the notebook has run to its end: propane is the fourth fuel, its row and
\* its line are there, and the step-by-step names hold values in kJ
C11_Witness ==
    /\ cell = "done"
    /\ fuels = NotebookFuels
    /\ Stored(4) /\ Printed(4)
    /\ hvs[4] = HeatingValuesWith(NewSolution, NewWater, "C3H8", AirN2)
    /\ About(glob.lhv_mass, 46352)
    /\ About(Kilo(hvs[4][3]), 50343)
    /\ out[6][1] = "C3H8"

C16_TableFilled ==
    /\ \A r \in 1 .. Len(fuels) :
           /\ Stored(r) =>
                  /\ calls <= Len(fuels) =>
                         hvs[r] = HeatingValuesWith(NewSolution, NewWater,
                                                    fuels[r], AirN2)
                  /\ \A k \in 1 .. 4 : hvs[r][k] # Zero
           /\ Printed(r) =>
                  /\ Stored(r)
                  /\ out[r + Len(Header)][1] = fuels[r]
                  /\ \A k \in 1 .. 4 :
                         out[r + Len(Header)][k + 1]
                             = Fixed6(FDiv(hvs[r][k], Lit(1000, 1)))
    /\ cell = "done" =>
           /\ Len(out) = Len(Header) + Len(fuels)
           /\ Len(hvs) = Len(fuels)
           /\ \A r \in 1 .. Len(fuels) : Stored(r) /\ Printed(r)

\* the loop over the six fuels of the notebook has ended: six rows, the
\* last one of methanol, and eight lines
C16_Witness ==
    /\ cell = "done"
    /\ calls = Len(NotebookFuels)
    /\ fuels = NotebookFuels
    /\ Len(out) = 8
    /\ out[8][1] = "CH3OH"
    /\ hvs[6] = ret
    /\ hvs[1] # hvs[6]

\* the fuel needs oxygen to burn: its products are another mixture than
\* its reactants
NeedsOxygen(f) ==
    OxygenMoles(n_atoms(f, "C"), n_atoms(f, "H"), n_atoms(f, "O")) # Zero

\* the loop over the fuels has ended and no cell was run after it
LoopEnded == cell = "done" /\ calls = Len(fuels)

\* the loop has just filled hvs: in the first pass no cell was run after
\* it; a later pass makes no call after it
LoopJustEnded == cell = "done" /\ (calls = Len(fuels) \/ pass > 1)

\* no cell has run since the last call: the loop is under way past a call,
\* or it has ended
SinceCall ==
    \/ cell \in {"store", "print", "done"}
    \/ cell = "for" /\ index > BeforeLoop
    \/ cell = "call" /\ index > BeforeLoop + 1

CallStep == pc # "idle" \/ pc' # "idle"

\* the step-by-step cells have all been run
CellsRun == cell \notin {StepCells[n] : n \in DOMAIN StepCells}

\* C19: a call of heating_values changes only the objects bound to gas and
\* water: every step of it leaves gas1 and every name of the notebook as
\* they are (the names its locals share with the notebook too), the list of
\* fuels, the table and the lines printed; so once it has returned for
\* propane, the notebook's lhv_mass, lhv_mole and h_fg are still the values
\* in kJ, a thousandth of the locals of the call.
C19_OnlyGasAndWater ==
    /\ [][CallStep => UNCHANGED <<gas1, glob, fuels, index, hvs, out>>]_vars
    /\ [](CellsRun /\ Returned /\ fuel = "C3H8" =>
              /\ glob.lhv_mass = Kilo(loc.lhv_mass)
              /\ glob.lhv_mole = Kilo(loc.lhv_mole)
              /\ glob.h_fg = Kilo(loc.h_fg)
              /\ glob.lhv_mass # loc.lhv_mass
              /\ glob.h_fg # loc.h_fg)

\* a call for methane has returned in the loop: gas is another mixture than
\* gas1, the notebook's names still hold the values of propane in kJ
C19_Witness ==
    /\ cell = "store"
    /\ Returned
    /\ fuel = "CH4"
    /\ glob.fuel = "C3H8"
    /\ gas1.X = Products("C3H8").X
    /\ gas.X # gas1.X
    /\ glob.x = Lit(3, 1)
    /\ loc.x = Lit(1, 1)
    /\ glob.h_fg = Kilo(loc.h_fg)

\* the fuel of the call is a species of gas that takes oxygen: a > 0
TakesOxygen == fuel \in GasSpecies /\ loc.a # Unbound /\ FLess(Zero, loc.a)

\* C21: for every fuel that is a species of gas made of C, H and O with
\* a > 0, no division of heating_values is by zero: Y_fuel_reac, read in the
\* stoichiometric reactants, is above zero when lhv_mass is computed from
\* it, and the molecular weight of the fuel is above zero when m_h2o is
\* computed.
C21_NoDivisionByZero ==
    TakesOxygen =>
        /\ pc = "lhv" => FLess(Zero, loc.Y_fuel_reac)
        /\ pc = "hhv" => FLess(Zero, molecular_weight(fuel))

\* m_h2o is about to be computed for methane: a = 2, and the fuel is a part
\* of the reactants, not all of them
C21_Witness ==
    /\ pc = "hhv"
    /\ fuel = "CH4"
    /\ loc.a = Lit(2, 1)
    /\ FLess(Zero, loc.Y_fuel_reac)
    /\ FLess(loc.Y_fuel_reac, Lit(1, 10))
    /\ loc.lhv_mass # Unbound

\* the call made by the loop has raised
RaisedInLoop == cell = "store" /\ pc = "raised"

\* C22: when heating_values raises for the fuel at index i of the list, the
\* loop stops there: no step follows the exception; the rows before i hold
\* the values of their fuels and their lines are printed, the rows from i on
\* still hold their zeros, and no line is printed for the fuel at i or for a
\* later one.
C22_LoopStopsAtRaise ==
    /\ [][pc # "raised"]_vars
    /\ [](RaisedInLoop =>
              /\ fuels[index + 1] \notin GasSpecies
              /\ Len(out) = Len(Header) + index
              /\ \A r \in 1 .. Len(fuels) :
                     IF r <= index
                     THEN /\ hvs[r] = HeatingValuesWith(NewSolution, NewWater,
                                                        fuels[r], AirN2)
                          /\ hvs[r] # Zeros(1)[1]
                          /\ out[r + Len(Header)] = TableLine(fuels[r], hvs[r])
                     ELSE hvs[r] = Zeros(1)[1])

\* the call for the second fuel of a list of three has raised: one row is
\* stored and one line printed after the header, two rows are zeros
C22_Witness ==
    /\ RaisedInLoop
    /\ index = 1
    /\ Len(fuels) = 3
    /\ exc = "CanteraError"
    /\ hvs[1] # Zeros(1)[1]
    /\ hvs[2] = Zeros(1)[1]
    /\ hvs[3] = Zeros(1)[1]
    /\ Len(out) = Len(Header) + 1
    /\ out[3][1] = "C3H8"

\* a step of a call whose fuel is no species of gas
FailingCallStep == CallStep /\ fuel' \notin GasSpecies

\* C23: a call of heating_values with a fuel that is no species of gas
\* raises at the step that sets the stoichiometric mixture, before anything
\* is read or assigned: no step of the call changes the state of water or
\* the composition of gas, which are as before the call, while the
\* temperature and the pressure of gas are set to T_ref and P_ref by then.
C23_RaisesBeforeReading ==
    /\ [][FailingCallStep => gas'.X = gas.X /\ water' = water]_vars
    /\ [](pc = "raised" =>
              /\ fuel \notin GasSpecies
              /\ gas.T = T_ref
              /\ gas.P = P_ref
              /\ log = <<"gas.TP">>
              /\ loc = NewFrame
              /\ ret = Unbound)

\* the first call of a session has raised: water and the composition of gas
\* are as created, the temperature of gas is T_ref
C23_Witness ==
    /\ pc = "raised"
    /\ calls = 1
    /\ fuel = UnknownFuel
    /\ water = NewWater
    /\ water.T # T_ref
    /\ gas.X = NewSolution.X
    /\ gas.T = T_ref
    /\ gas.T # NewSolution.T

\* N_H2O * MW_H2O * h_fg with the locals of the call: the latent heat of the
\* product water per mole of fuel
MolarLatentHeat == FMul(FMul(loc.N_H2O, molecular_weight("H2O")), loc.h_fg)

\* C24 as stated: the float difference HHV_mole - LHV_mole is the float
\* product N_H2O * MW_H2O * h_fg, bit for bit.
C24_ExactMolarDifference ==
    Returned => FSub(ret[4], ret[2]) = MolarLatentHeat

\* C24: for every fuel the call returns for, HHV_mole - LHV_mole and
\* N_H2O * MW_H2O * h_fg, in which the molecular weight of the fuel does not
\* occur, differ by no more than eight units in the last place of the larger
\* of HHV_mole and LHV_mole; HHV_mole and LHV_mole are HHV_mass and LHV_mass
\* times the molecular weight of the fuel.
C24_MolarLatentHeat ==
    Returned =>
        /\ WithinUlps(FSub(ret[4], ret[2]), MolarLatentHeat, 8,
                      FMax(FAbs(ret[2]), FAbs(ret[4])))
        /\ ret[2] = PerMole(ret[1], fuel)
        /\ ret[4] = PerMole(ret[3], fuel)

\* a call has returned for a fuel that yields water: the two sides are not
\* the same float
C24_Witness ==
    /\ Returned
    /\ FLess(Zero, loc.N_H2O)
    /\ FLess(ret[2], ret[4])
    /\ FSub(ret[4], ret[2]) # MolarLatentHeat
    /\ Close(FSub(ret[4], ret[2]), MolarLatentHeat, 8)

\* the notebook's name n is not bound, or it holds v
BoundTo(n, v) == glob[n] = Unbound \/ glob[n] = v

\* C25: in every pass over the cells, each name the cells compute holds,
\* once it is bound, the one value that follows from a gas1 and a water as
\* created: h_reac_mass, Y_C3H8_reac, h_prod_mass, lhv_mass and lhv_mole in
\* kJ, h_fg, hbar_fg, m_h2o, hhv_mass and hhv_mole; and when the loop ends
\* every row of hvs holds the values of heating_values for its fuel.  So a
\* second pass yields the values of the first, though it starts with gas1
\* in the product state and lhv_mass in kJ.
C25_SameOnRerun ==
    LET reac == Reactants("C3H8")
        prod == Products("C3H8")
        lhv == LowerHeatingValue(enthalpy_mass(reac), enthalpy_mass(prod),
                                 mass_fraction(reac, "C3H8"))
        hfg == LatentHeatKilo(water_h(SetTX(NewWater, T_ref, 1)),
                              water_h(SetTX(NewWater, T_ref, 0)))
        mw == WaterMass(MolesH2O(n_atoms("C3H8", "H")), "C3H8")
        hhv == HigherHeatingValue(Kilo(lhv), mw, hfg)
    IN  /\ BoundTo("h_reac_mass", enthalpy_mass(reac))
        /\ BoundTo("Y_C3H8_reac", mass_fraction(reac, "C3H8"))
        /\ BoundTo("h_prod_mass", enthalpy_mass(prod))
        /\ BoundTo("lhv_mass", Kilo(lhv))
        /\ BoundTo("lhv_mole", Kilo(PerMole(lhv, "C3H8")))
        /\ BoundTo("h_fg", hfg)
        /\ BoundTo("hbar_fg", FMul(hfg, molecular_weight("H2O")))
        /\ BoundTo("m_h2o", mw)
        /\ BoundTo("hhv_mass", hhv)
        /\ BoundTo("hhv_mole", PerMole(hhv, "C3H8"))
        /\ LoopJustEnded =>
               \A r \in 1 .. Len(fuels) :
                   hvs[r] = HeatingValuesWith(NewSolution, NewWater, fuels[r],
                                              AirN2)

\* the second pass has run to the end of its loop over the six fuels: the
\* table is filled again, and lhv_mass is in kJ, a thousandth of the row of
\* propane
C25_Witness ==
    /\ pass = 2
    /\ cell = "done"
    /\ fuels = NotebookFuels
    /\ calls >= 2 * Len(NotebookFuels)
    /\ hvs[6] = ret
    /\ glob.lhv_mass = Kilo(hvs[4][1])
    /\ glob.hhv_mole # Unbound
    /\ gas1.X = Products("C3H8").X
    /\ gas.X = Products("CH3OH").X

=============================================================================
